---------------------------- MODULE Spec2Model ----------------------------
(***************************************************************************)
(* Model of limbo_extension/src/lib.rs: the ABI Value and its constructors,*)
(* the Display rendering of a text payload, the trampoline generated by    *)
(* declare_scalar_functions!, and the entry function generated by         *)
(* register_extension! / register_scalar_functions!.                      *)
(*                                                                         *)
(* Representation choices:                                                 *)
(*  - a byte is a number in 0..255, a string or buffer a sequence of bytes;*)
(*  - a pointer is modelled by the buffer it addresses (the code never     *)
(*    writes through a pointer, so the pointee is fixed once allocated);   *)
(*    the null pointer is a distinguished value;                           *)
(*  - an f64 is an opaque bit pattern named by a string; only identity of  *)
(*    the bit pattern is used by the code that is modelled;                *)
(*  - i64 and i32 values are drawn from small ranges; the one conversion   *)
(*    whose width matters (i32 -> usize) is modelled by AsUsize.           *)
(***************************************************************************)
EXTENDS Integers, Sequences, FiniteSets, TLC

VARIABLES
    \* ---- value constructors and Display (impl Value, impl Display for TextValue)
    v_op,        \* the constructor last called: "none", "null", "from_integer", ...
    v_arg,       \* the argument it was called with
    v_status,    \* "none" (nothing built yet), "ok" (a Value was returned), "panic"
    val,         \* the Value returned (meaningful when v_status = "ok")
    rendered,    \* [done, out]: the output of Display on val.text, once it has run
    \* ---- trampoline generated by declare_scalar_functions!
    decl,        \* [min, max]: the #[args(min = .., max = ..)] of the function
    tr_argc,     \* argc of the invocation
    tr_argv,     \* argv of the invocation
    tr_outcome,  \* "none", "arity_error", "body", "crash"
    tr_read,     \* [made, len]: the length of the slice built over argv, if one was
    tr_slice,    \* the slice handed to the author's body
    tr_ret,      \* the Value returned to the host
    \* ---- register_extension generated by register_extension!
    api,         \* the ExtensionApi pointer the host passes
    scalars,     \* the declared (name => function) pairs, in declaration order
    reg_pc,      \* "idle", "loop", "done", "panicked", "crash"
    reg_k,       \* number of pairs whose registration has been attempted
    calls,       \* the register_scalar_function calls the host has received
    host_rets,   \* the status the host returned for each call
    result       \* the ResultCode returned, or NoResult

valueVars == <<v_op, v_arg, v_status, val, rendered>>
trampVars == <<decl, tr_argc, tr_argv, tr_outcome, tr_read, tr_slice, tr_ret>>
regVars   == <<api, scalars, reg_pc, reg_k, calls, host_rets, result>>
vars      == <<valueVars, trampVars, regVars>>

---------------------------------------------------------------------------
(* Bounds of the model *)

MaxTextLen == 2      \* longest byte string given to from_text / from_blob / TextValue::new
MaxArity   == 2      \* largest declared max, and longest argv array
MaxScalars == 3      \* longest declared list of scalars

(* Program constants *)

RESULT_OK    == 0
RESULT_ERROR == 1

---------------------------------------------------------------------------
(* Bytes and strings *)

\* NUL, 'A', a two-byte lead (0xC3), a continuation byte (0xA9), a byte that is
\* never valid in UTF-8 (0xFF).
ByteAlphabet == {0, 65, 195, 169, 255}

RECURSIVE SeqsUpTo(_, _)
SeqsUpTo(S, n) ==
    IF n = 0 THEN {<<>>}
    ELSE LET shorter == SeqsUpTo(S, n - 1)
         IN  shorter \cup {Append(s, b) : s \in shorter, b \in S}

ShortBytes == SeqsUpTo(ByteAlphabet, MaxTextLen)

HasNul(bytes) == \E i \in 1..Len(bytes) : bytes[i] = 0

IsPrefix(s, t) == Len(s) <= Len(t) /\ SubSeq(t, 1, Len(s)) = s

---------------------------------------------------------------------------
(* Pointers *)

NullPtr  == [null |-> TRUE, buf |-> <<>>]
Ptr(buf) == [null |-> FALSE, buf |-> buf]

---------------------------------------------------------------------------
(* std::str::from_utf8, as called by Display: Ok, or Utf8Error{valid_up_to, *)
(* error_len}.  error_len = 0 stands for None.                              *)

IsCont(b) == 128 <= b /\ b <= 191

Utf8CharWidth(b) ==
    IF b < 128 THEN 1
    ELSE IF 194 <= b /\ b <= 223 THEN 2
    ELSE IF 224 <= b /\ b <= 239 THEN 3
    ELSE IF 240 <= b /\ b <= 244 THEN 4
    ELSE 0

SecondOk3(first, b) ==
    \/ first = 224 /\ 160 <= b /\ b <= 191
    \/ 225 <= first /\ first <= 236 /\ IsCont(b)
    \/ first = 237 /\ 128 <= b /\ b <= 159
    \/ 238 <= first /\ first <= 239 /\ IsCont(b)

SecondOk4(first, b) ==
    \/ first = 240 /\ 144 <= b /\ b <= 191
    \/ 241 <= first /\ first <= 243 /\ IsCont(b)
    \/ first = 244 /\ 128 <= b /\ b <= 143

Utf8Ok == [ok |-> TRUE, valid_up_to |-> 0, error_len |-> 0]
Utf8Err(upto, n) == [ok |-> FALSE, valid_up_to |-> upto, error_len |-> n]

\* i is the 1-based position of the next character's first byte.
RECURSIVE Utf8From(_, _)
Utf8From(v, i) ==
    IF i > Len(v) THEN Utf8Ok
    ELSE LET first == v[i]
             w     == Utf8CharWidth(first)
             has(j) == i + j <= Len(v)
             at(j)  == v[i + j]
         IN  IF w = 1 THEN Utf8From(v, i + 1)
             ELSE IF w = 2 THEN
                 IF ~has(1) THEN Utf8Err(i - 1, 0)
                 ELSE IF ~IsCont(at(1)) THEN Utf8Err(i - 1, 1)
                 ELSE Utf8From(v, i + 2)
             ELSE IF w = 3 THEN
                 IF ~has(1) THEN Utf8Err(i - 1, 0)
                 ELSE IF ~SecondOk3(first, at(1)) THEN Utf8Err(i - 1, 1)
                 ELSE IF ~has(2) THEN Utf8Err(i - 1, 0)
                 ELSE IF ~IsCont(at(2)) THEN Utf8Err(i - 1, 2)
                 ELSE Utf8From(v, i + 3)
             ELSE IF w = 4 THEN
                 IF ~has(1) THEN Utf8Err(i - 1, 0)
                 ELSE IF ~SecondOk4(first, at(1)) THEN Utf8Err(i - 1, 1)
                 ELSE IF ~has(2) THEN Utf8Err(i - 1, 0)
                 ELSE IF ~IsCont(at(2)) THEN Utf8Err(i - 1, 2)
                 ELSE IF ~has(3) THEN Utf8Err(i - 1, 0)
                 ELSE IF ~IsCont(at(3)) THEN Utf8Err(i - 1, 3)
                 ELSE Utf8From(v, i + 4)
             ELSE Utf8Err(i - 1, 1)

FromUtf8(v) == Utf8From(v, 1)

\* The values a Rust String can hold: valid UTF-8 (a NUL byte is valid UTF-8).
Strings == {s \in ShortBytes : FromUtf8(s).ok}

---------------------------------------------------------------------------
(* Formatting *)

RECURSIVE Decimal(_)
Decimal(n) == IF n < 10 THEN <<48 + n>> ELSE Decimal(n \div 10) \o <<48 + (n % 10)>>

\* "{:?}" of a Utf8Error (the derived Debug).
DebugUtf8Error(e) ==
    <<85, 116, 102, 56, 69, 114, 114, 111, 114, 32, 123, 32, 118, 97, 108, 105,
      100, 95, 117, 112, 95, 116, 111, 58, 32>>                 \* "Utf8Error { valid_up_to: "
    \o Decimal(e.valid_up_to)
    \o <<44, 32, 101, 114, 114, 111, 114, 95, 108, 101, 110, 58, 32>>   \* ", error_len: "
    \o (IF e.error_len = 0
        THEN <<78, 111, 110, 101>>                                  \* "None"
        ELSE <<83, 111, 109, 101, 40>> \o Decimal(e.error_len) \o <<41>>)  \* "Some(n)"
    \o <<32, 125>>                                                  \* " }"

NullMarker    == <<60, 110, 117, 108, 108, 62>>                     \* "<null>"
InvalidPrefix == <<60, 105, 110, 118, 97, 108, 105, 100, 32, 85, 84, 70, 45, 56,
                   58, 32>>                                         \* "<invalid UTF-8: "
InvalidSuffix == <<62>>                                             \* ">"

---------------------------------------------------------------------------
(* TextValue and Blob *)

TextValueNew(text, len) == [text |-> text, len |-> len]
TextValueNull == [text |-> NullPtr, len |-> 0]
TextIsNull(tv) == tv.text.null

BlobNew(data, size) == [data |-> data, size |-> size]
BlobNull == [data |-> NullPtr, size |-> 0]

\* The bytes a non-null text payload addresses: len bytes from its pointer.
TextSlice(tv) == SubSeq(tv.text.buf, 1, tv.len)

\* impl Display for TextValue: the bytes written to the formatter.
DisplayLossy(tv) ==
    IF tv.text.null THEN NullMarker
    ELSE LET e == FromUtf8(TextSlice(tv))
         IN  IF e.ok THEN TextSlice(tv) ELSE SubSeq(TextSlice(tv), 1, e.valid_up_to)

DisplayText(tv) ==
    IF tv.text.null THEN NullMarker
    ELSE LET slice == TextSlice(tv)
             e     == FromUtf8(slice)
         IN  IF e.ok THEN slice
             ELSE InvalidPrefix \o DebugUtf8Error(e) \o InvalidSuffix

---------------------------------------------------------------------------
(* Value and its constructors *)

F64Zero == "0.0"
Floats  == {"0.0", "1.5", "-2.25", "NaN"}
Ints    == {-3, 0, 1, 21, 42}

ValueNull ==
    [value_type |-> "Null", integer |-> 0, float |-> F64Zero,
     text |-> TextValueNull, blob |-> BlobNull]

FromInteger(value) ==
    [value_type |-> "Integer", integer |-> value, float |-> F64Zero,
     text |-> TextValueNull, blob |-> BlobNull]

FromFloatDirty(value) ==
    [value_type |-> "Float", integer |-> 1, float |-> value,
     text |-> TextValueNull, blob |-> BlobNull]

FromFloat(value) ==
    [value_type |-> "Float", integer |-> 0, float |-> value,
     text |-> TextValueNull, blob |-> BlobNull]

\* CString::new(bytes): Err when bytes holds a NUL, else the bytes and a
\* terminating NUL.
CStringNew(bytes) ==
    IF HasNul(bytes) THEN [ok |-> FALSE, bytes |-> <<>>]
    ELSE [ok |-> TRUE, bytes |-> Append(bytes, 0)]

\* from_text: CString::new(&*value).unwrap() panics on Err; otherwise the
\* CString is leaked and its pointer and value.len() make the payload.
FromText(value) ==
    LET cstr == CStringNew(value)
    IN  IF ~cstr.ok THEN [panic |-> TRUE, value |-> ValueNull]
        ELSE [panic |-> FALSE,
              value |-> [value_type |-> "Text", integer |-> 0, float |-> F64Zero,
                         text |-> TextValueNew(Ptr(cstr.bytes), Len(value)),
                         blob |-> BlobNull]]

FromBlob(value) ==
    [value_type |-> "Blob", integer |-> 0, float |-> F64Zero,
     text |-> TextValueNull, blob |-> BlobNew(Ptr(value), Len(value))]

NotRendered == [done |-> FALSE, out |-> <<>>]


\* A text payload as a host builds it for a Text argument: TextValue::new over
\* a buffer it owns.
HostTextValue(bytes) ==
    [value_type |-> "Text", integer |-> 0, float |-> F64Zero,
     text |-> TextValueNew(Ptr(bytes), Len(bytes)), blob |-> BlobNull]

InvalidShort == {b \in ShortBytes : ~FromUtf8(b).ok}

\* Texts that spell out what Display writes for an undecodable payload.
MarkerTexts == {DisplayText(TextValueNew(Ptr(b), Len(b))) : b \in InvalidShort}

RawTexts == ShortBytes \cup MarkerTexts \cup {NullMarker}

---------------------------------------------------------------------------
(* Actions: the constructors and Display *)

CallNull ==
    /\ v_op' = "null"
    /\ v_arg' = <<>>
    /\ v_status' = "ok"
    /\ val' = ValueNull
    /\ rendered' = NotRendered
    /\ UNCHANGED <<trampVars, regVars>>

CallFromInteger ==
    \E x \in Ints :
        /\ v_op' = "from_integer"
        /\ v_arg' = x
        /\ v_status' = "ok"
        /\ val' = FromInteger(x)
        /\ rendered' = NotRendered
        /\ UNCHANGED <<trampVars, regVars>>

CallFromFloat ==
    \E x \in Floats :
        /\ v_op' = "from_float"
        /\ v_arg' = x
        /\ v_status' = "ok"
        /\ val' = FromFloat(x)
        /\ rendered' = NotRendered
        /\ UNCHANGED <<trampVars, regVars>>

CallFromText ==
    \E s \in Strings :
        LET r == FromText(s)
        IN  /\ v_op' = "from_text"
            /\ v_arg' = s
            /\ v_status' = IF r.panic THEN "panic" ELSE "ok"
            /\ val' = r.value
            /\ rendered' = NotRendered
            /\ UNCHANGED <<trampVars, regVars>>

CallFromBlob ==
    \E b \in ShortBytes :
        /\ v_op' = "from_blob"
        /\ v_arg' = b
        /\ v_status' = "ok"
        /\ val' = FromBlob(b)
        /\ rendered' = NotRendered
        /\ UNCHANGED <<trampVars, regVars>>

CallTextValueNew ==
    \E b \in RawTexts :
        /\ v_op' = "text_new"
        /\ v_arg' = b
        /\ v_status' = "ok"
        /\ val' = HostTextValue(b)
        /\ rendered' = NotRendered
        /\ UNCHANGED <<trampVars, regVars>>

\* format!("{}", val.text)
Display ==
    /\ v_status = "ok"
    /\ ~rendered.done
    /\ rendered' = [done |-> TRUE, out |-> DisplayText(val.text)]
    /\ UNCHANGED <<v_op, v_arg, v_status, val, trampVars, regVars>>

---------------------------------------------------------------------------
(* The trampoline generated by declare_scalar_functions! *)

\* argv: null, a pointer to no live array, or a pointer to an array of handles.
\* A handle is null or points to a Value.
NullHandle  == [null |-> TRUE, val |-> ValueNull]
HandleTo(v) == [null |-> FALSE, val |-> v]

ArgValues == {ValueNull, FromInteger(21), FromInteger(-3), HostTextValue(<<65>>)}
Handles   == {NullHandle} \cup {HandleTo(v) : v \in ArgValues}

ArgvNull     == [kind |-> "null", handles |-> <<>>]
ArgvDangling == [kind |-> "dangling", handles |-> <<>>]
ArgvArray(h) == [kind |-> "array", handles |-> h]
Argvs == {ArgvNull, ArgvDangling} \cup {ArgvArray(h) : h \in SeqsUpTo(Handles, MaxArity)}

Argcs == (-2)..(MaxArity + 1)
Decls == {[min |-> lo, max |-> hi] : lo \in (-1)..MaxArity, hi \in 0..MaxArity}

\* `argc as usize`: an i32 sign-extended and reinterpreted modulo the width of
\* usize.  TLC's integers are 32-bit, so the modulus 2^64 is scaled down; all
\* that is used of it is that it exceeds the length of every array.
UsizeModulus == 2^30
AsUsize(n) == IF n >= 0 THEN n ELSE UsizeModulus + n

\* ($min_args..=$max_args).contains(&argc)
InRangeNoMin(d, argc) == argc <= d.max

InRange(d, argc) == d.min <= argc /\ argc <= d.max

\* argc == 0 || argv.is_null()
NoArgsCountOnly(argc, argv) == argc = 0

NoArgs(argc, argv) == argc = 0 \/ argv.kind = "null"

\* One iteration of the loop: a null handle gives Value::null(), another is
\* copied by std::ptr::read.
ReadHandleNullOnly(h) == ValueNull

ReadHandle(h) == IF h.null THEN ValueNull ELSE h.val

Marshal(handles) == [i \in 1..Len(handles) |-> ReadHandle(handles[i])]

\* The author's body: the example of the macro's documentation.
Body(args) ==
    IF Len(args) # 1 THEN ValueNull
    ELSE FromInteger(args[1].integer * 2)

NoRead == [made |-> FALSE, len |-> 0]

Outcome(o, read, slice, ret) ==
    [outcome |-> o, read |-> read, slice |-> slice, ret |-> ret]

\* What reading n handles through argv can give when argv does not address n
\* live handles (undefined behaviour): the handles that exist are read, the
\* others are whatever the memory holds.
GarbageSlices(argv, n) ==
    LET m == IF n <= MaxArity + 1 THEN n ELSE MaxArity + 1
        live == IF argv.kind = "array" THEN argv.handles ELSE <<>>
    IN  {s \in [1..m -> ArgValues] :
            \A i \in 1..m : i <= Len(live) => s[i] = ReadHandle(live[i])}

\* All results one invocation can have.
Trampoline(d, argc, argv) ==
    IF ~InRange(d, argc) THEN
        {Outcome("arity_error", NoRead, <<>>, ValueNull)}
    ELSE IF NoArgs(argc, argv) THEN
        {Outcome("body", NoRead, <<>>, Body(<<>>))}
    ELSE
        LET n    == AsUsize(argc)
            read == [made |-> TRUE, len |-> n]
        IN  IF argv.kind = "array" /\ n <= Len(argv.handles) THEN
                LET values == Marshal(SubSeq(argv.handles, 1, n))
                IN  {Outcome("body", read, values, Body(values))}
            ELSE
                {Outcome("crash", read, <<>>, ValueNull)}
                \cup {Outcome("body", read, g, Body(g)) : g \in GarbageSlices(argv, n)}

\* One invocation by the host, with the argc and argv it passes.
Invoke ==
    /\ tr_outcome = "none"
    /\ \E o \in Trampoline(decl, tr_argc, tr_argv) :
            /\ tr_outcome' = o.outcome
            /\ tr_read' = o.read
            /\ tr_slice' = o.slice
            /\ tr_ret' = o.ret
    /\ UNCHANGED <<decl, tr_argc, tr_argv, valueVars, regVars>>

---------------------------------------------------------------------------
(* register_extension, generated by register_extension! *)

NullApi     == [null |-> TRUE, ctx |-> "none"]
ApiWith(c)  == [null |-> FALSE, ctx |-> c]
Apis        == {NullApi, ApiWith("ctx_a"), ApiWith("ctx_b")}

\* "f", "gh", and a name with an embedded NUL: "a\0b".
DeclNames == {<<102>>, <<103, 104>>, <<97, 0, 98>>}
Funcs     == {"double", "triple"}
Pairs     == {[name |-> n, func |-> f] : n \in DeclNames, f \in Funcs}

NoResult    == [returned |-> FALSE, code |-> 0]
Returned(c) == [returned |-> TRUE, code |-> c]

\* api.is_null()
ApiIsNullNever(a) == FALSE

ApiIsNull(a) == a.null

\* ((*api).register_scalar_function)((*api).ctx, cname.as_ptr(), fptr)
RegisterCallNoCtx(a, cname, fptr) == [ctx |-> "none", name |-> cname, func |-> fptr]

RegisterCall(a, cname, fptr) == [ctx |-> a.ctx, name |-> cname, func |-> fptr]

\* One repetition of register_scalar_functions!: the name is encoded, unwrap
\* panics if that failed, and otherwise the host is called.
RegisterOneRollback(a, pair, cs) ==
    LET cname == CStringNew(pair.name)
    IN  IF ~cname.ok THEN [panic |-> TRUE, calls |-> <<>>]
        ELSE [panic |-> FALSE, calls |-> Append(cs, RegisterCall(a, cname.bytes, pair.func))]

RegisterOne(a, pair, cs) ==
    LET cname == CStringNew(pair.name)
    IN  IF ~cname.ok THEN [panic |-> TRUE, calls |-> cs]
        ELSE [panic |-> FALSE, calls |-> Append(cs, RegisterCall(a, cname.bytes, pair.func))]

\* The host calls the entry function: the null check.
Enter ==
    /\ reg_pc = "idle"
    /\ IF ApiIsNull(api)
       THEN reg_pc' = "done" /\ result' = Returned(RESULT_ERROR)
       ELSE reg_pc' = "loop" /\ result' = result
    /\ UNCHANGED <<api, scalars, reg_k, calls, host_rets, valueVars, trampVars>>

\* The next declared pair.  The status the host returns is discarded.  Reading
\* the table through a null api is undefined behaviour; it is modelled as a
\* crash, and the null check keeps it from happening.
RegisterNext ==
    /\ reg_pc = "loop"
    /\ reg_k < Len(scalars)
    /\ IF api.null
       THEN /\ reg_pc' = "crash"
            /\ UNCHANGED <<reg_k, calls, host_rets>>
       ELSE LET r == RegisterOne(api, scalars[reg_k + 1], calls)
            IN  IF r.panic
                THEN /\ reg_pc' = "panicked"
                     /\ calls' = r.calls
                     /\ UNCHANGED <<reg_k, host_rets>>
                ELSE \E status \in {RESULT_OK, RESULT_ERROR} :
                     /\ reg_pc' = "loop"
                     /\ calls' = r.calls
                     /\ host_rets' = Append(host_rets, status)
                     /\ reg_k' = reg_k + 1
    /\ UNCHANGED <<api, scalars, result, valueVars, trampVars>>

\* $crate::RESULT_OK
Return ==
    /\ reg_pc = "loop"
    /\ reg_k = Len(scalars)
    /\ reg_pc' = "done"
    /\ result' = Returned(RESULT_OK)
    /\ UNCHANGED <<api, scalars, reg_k, calls, host_rets, valueVars, trampVars>>

---------------------------------------------------------------------------
(* Specifications *)

ValueIdle ==
    /\ v_op = "none" /\ v_arg = <<>> /\ v_status = "none"
    /\ val = ValueNull /\ rendered = NotRendered

TrampIdle(d, argc, argv) ==
    /\ decl = d /\ tr_argc = argc /\ tr_argv = argv /\ tr_outcome = "none"
    /\ tr_read = NoRead /\ tr_slice = <<>> /\ tr_ret = ValueNull

NoTramp == TrampIdle([min |-> 0, max |-> 0], 0, ArgvNull)

RegIdle(a, s) ==
    /\ api = a /\ scalars = s /\ reg_pc = "idle" /\ reg_k = 0
    /\ calls = <<>> /\ host_rets = <<>> /\ result = NoResult

\* The constructors and Display.
InitValue == ValueIdle /\ NoTramp /\ RegIdle(NullApi, <<>>)
NextValue ==
    \/ CallNull
    \/ CallFromInteger
    \/ CallFromFloat
    \/ CallFromText
    \/ CallFromBlob
    \/ CallTextValueNew
    \/ Display
SpecValue == InitValue /\ [][NextValue]_vars

\* A function declared with any bounds, invoked by the host with any argc and
\* argv.  The trampoline keeps no state between invocations, so one is modelled.
InitTramp ==
    /\ ValueIdle
    /\ \E d \in Decls, argc \in Argcs, argv \in Argvs : TrampIdle(d, argc, argv)
    /\ RegIdle(NullApi, <<>>)
NextTramp == Invoke
SpecTramp == InitTramp /\ [][NextTramp]_vars

\* A plugin declaring any list of scalars, loaded by the host with any table.
InitReg ==
    /\ ValueIdle
    /\ NoTramp
    /\ \E a \in Apis, s \in SeqsUpTo(Pairs, MaxScalars) : RegIdle(a, s)
NextReg ==
    \/ Enter
    \/ RegisterNext
    \/ Return
SpecReg == InitReg /\ [][NextReg]_vars

Init == InitValue \/ InitTramp \/ InitReg
Next == NextValue \/ NextTramp \/ NextReg
Spec == Init /\ [][Next]_vars

---------------------------------------------------------------------------
(* Properties of the trampoline, checked under SpecTramp *)

Invoked == tr_outcome # "none"
ArgcInDeclared == decl.min <= tr_argc /\ tr_argc <= decl.max

\* C1: an argc outside the declared [min, max] gives a Null Value, whatever
\* argv is (null, dangling or an array): argv is not read and the author's
\* body is not run.
C1_OutOfRangeIsNull ==
    (Invoked /\ ~ArgcInDeclared) =>
        /\ tr_outcome = "arity_error"
        /\ tr_ret.value_type = "Null"
        /\ ~tr_read.made
        /\ tr_slice = <<>>

C1_Witness ==
    /\ tr_outcome = "arity_error"
    /\ tr_argv.kind = "dangling"
    /\ tr_argc > decl.max

\* C2: with argc in the declared range and argv an array of argc handles, the
\* body gets exactly argc Values, position by position: Value::null() for a
\* null handle, the pointed-to Value, field for field, for another.  With
\* bounds [1, 1] and one handle to Integer(21) the documented doubling body
\* returns Integer(42).
C2_MarshalledSlice ==
    (Invoked /\ ArgcInDeclared /\ tr_argv.kind = "array"
             /\ Len(tr_argv.handles) = tr_argc) =>
        /\ tr_outcome = "body"
        /\ Len(tr_slice) = tr_argc
        /\ \A i \in 1..tr_argc :
            /\ tr_argv.handles[i].null =>
                 /\ tr_slice[i].value_type = "Null"
                 /\ tr_slice[i] = ValueNull
            /\ ~tr_argv.handles[i].null => tr_slice[i] = tr_argv.handles[i].val
        /\ (tr_argc = 1 /\ ~tr_argv.handles[1].null
                /\ tr_argv.handles[1].val.value_type = "Integer"
                /\ tr_argv.handles[1].val.integer = 21) =>
              (tr_ret.value_type = "Integer" /\ tr_ret.integer = 42)

C2_Witness ==
    /\ tr_outcome = "body"
    /\ tr_argc = 2
    /\ tr_argv.kind = "array"
    /\ Len(tr_argv.handles) = 2
    /\ tr_argv.handles[1].null
    /\ ~tr_argv.handles[2].null
    /\ tr_argv.handles[2].val.value_type = "Text"
    /\ Len(tr_slice) = 2

\* C3, as claimed: argc = 0 or a null argv always runs the body with an empty
\* slice and never gives the arity error, for every declared [min, max] and
\* every argc.
C3_NoArgsNeverError ==
    (Invoked /\ (tr_argc = 0 \/ tr_argv.kind = "null")) =>
        (tr_outcome = "body" /\ tr_slice = <<>>)

\* C3, amended: when argc is within the declared [min, max], argc = 0 or a
\* null argv runs the body with an empty slice, without reading argv; when
\* argc is outside [min, max] the arity check comes first and gives the error.
C3_NoArgsInRange ==
    (Invoked /\ (tr_argc = 0 \/ tr_argv.kind = "null")) =>
        /\ ArgcInDeclared =>
             /\ tr_outcome = "body"
             /\ tr_slice = <<>>
             /\ ~tr_read.made
        /\ ~ArgcInDeclared =>
             /\ tr_outcome = "arity_error"
             /\ tr_ret.value_type = "Null"

C3_Witness ==
    /\ tr_outcome = "body"
    /\ tr_argv.kind = "null"
    /\ tr_argc = 2
    /\ tr_slice = <<>>

\* C10: whenever the trampoline builds the slice of handles over argv, argv is
\* not null and the slice has exactly argc handles with 1 <= argc <= max, for
\* every declared [min, max], a negative min included.
C10_ReadsExactlyArgc ==
    tr_read.made =>
        /\ tr_argv.kind # "null"
        /\ tr_read.len = tr_argc
        /\ 1 <= tr_argc
        /\ tr_argc <= decl.max

---------------------------------------------------------------------------
(* Properties of register_extension, checked under SpecReg *)

Entered == reg_pc # "idle"
Stopped == reg_pc \in {"done", "panicked", "crash"}
NamesEncodable == \A k \in 1..Len(scalars) : ~HasNul(scalars[k].name)

\* What the host must have received for the k-th declared pair.
ExpectedCall(k) ==
    [ctx |-> api.ctx, name |-> Append(scalars[k].name, 0), func |-> scalars[k].func]

\* C4: with a null ExtensionApi pointer the entry function returns
\* RESULT_ERROR and never calls register_scalar_function, whatever is declared.
C4_NullApi ==
    api.null =>
        /\ calls = <<>>
        /\ Entered => (reg_pc = "done" /\ result = Returned(RESULT_ERROR))
        /\ result.returned => result.code = 1

C4_Witness ==
    /\ api.null
    /\ reg_pc = "done"
    /\ Len(scalars) >= 2
    /\ result.returned

\* C5, as claimed: with a non-null table and N declared pairs the entry
\* function ends by returning RESULT_OK after exactly N calls, the k-th with
\* the table's ctx, the k-th name null-terminated and the k-th function.
C5_AllRegistered ==
    (~api.null /\ Stopped) =>
        /\ reg_pc = "done"
        /\ result = Returned(RESULT_OK)
        /\ Len(calls) = Len(scalars)
        /\ \A k \in 1..Len(calls) : calls[k] = ExpectedCall(k)

\* C5, amended: the same, provided no declared name contains a zero byte; the
\* statuses the host returns do not matter.  With a name that contains a zero
\* byte the function panics at that pair: the later pairs are not registered
\* and nothing is returned.
C5_AllRegisteredEncodable ==
    ~api.null =>
        /\ NamesEncodable =>
             /\ reg_pc \notin {"panicked", "crash"}
             /\ Len(calls) <= Len(scalars)
             /\ \A k \in 1..Len(calls) : calls[k] = ExpectedCall(k)
             /\ \A k \in 1..Len(calls) :
                    calls[k].name[Len(calls[k].name)] = 0
             /\ result.returned <=> reg_pc = "done"
             /\ result.returned =>
                    (result.code = 0 /\ Len(calls) = Len(scalars))
        /\ (~NamesEncodable /\ Stopped) =>
             /\ reg_pc = "panicked"
             /\ ~result.returned
             /\ Len(calls) < Len(scalars)
             /\ HasNul(scalars[Len(calls) + 1].name)

C5_Witness ==
    /\ ~api.null
    /\ NamesEncodable
    /\ reg_pc = "done"
    /\ Len(scalars) >= 2
    /\ Len(calls) = Len(scalars)
    /\ calls[1].name # calls[2].name
    /\ \E k \in 1..Len(host_rets) : host_rets[k] = RESULT_ERROR

\* C9: registration has no rollback.  Every step leaves the calls already
\* received in place and adds at most the call for the next declared pair;
\* when the name of the k-th pair holds a NUL the function panics with the
\* k-1 earlier calls standing and no call made for that pair; a non-OK status
\* from the host removes nothing either.
C9_NoRollback ==
    [][ /\ IsPrefix(calls, calls')
        /\ Len(calls') <= Len(calls) + 1
        /\ Len(calls') = Len(calls) + 1 =>
               /\ ~api.null => calls'[Len(calls')] = ExpectedCall(reg_k + 1)
               /\ ~HasNul(scalars[reg_k + 1].name)
        /\ (reg_pc' = "panicked" /\ reg_pc # "panicked") =>
               /\ HasNul(scalars[reg_k + 1].name)
               /\ calls' = calls
               /\ Len(calls') = reg_k
               /\ ~result'.returned
      ]_vars

C9_Witness ==
    /\ reg_pc = "panicked"
    /\ Len(calls) >= 2
    /\ host_rets[1] = RESULT_ERROR

---------------------------------------------------------------------------
(* Properties of the constructors and Display, checked under SpecValue *)

IntegerSentinel(v) == v.integer = 0
FloatSentinel(v)   == v.float = "0.0"
TextSentinel(v)    == v.text.text.null /\ v.text.len = 0
BlobSentinel(v)    == v.blob.data.null /\ v.blob.size = 0

\* C6: a Value returned by a constructor has the constructor's kind, carries
\* the input in that kind's payload, and has every other payload at its
\* sentinel; Value::null() has all four at their sentinel.
C6_ConstructorShape ==
    v_status = "ok" =>
        /\ v_op = "null" =>
             /\ val.value_type = "Null"
             /\ IntegerSentinel(val) /\ FloatSentinel(val)
             /\ TextSentinel(val) /\ BlobSentinel(val)
        /\ v_op = "from_integer" =>
             /\ val.value_type = "Integer"
             /\ val.integer = v_arg
             /\ FloatSentinel(val) /\ TextSentinel(val) /\ BlobSentinel(val)
        /\ v_op = "from_float" =>
             /\ val.value_type = "Float"
             /\ val.float = v_arg
             /\ IntegerSentinel(val) /\ TextSentinel(val) /\ BlobSentinel(val)
        /\ v_op = "from_text" =>
             /\ val.value_type = "Text"
             /\ ~val.text.text.null
             /\ val.text.len = Len(v_arg)
             /\ SubSeq(val.text.text.buf, 1, val.text.len) = v_arg
             /\ IntegerSentinel(val) /\ FloatSentinel(val) /\ BlobSentinel(val)
        /\ v_op = "from_blob" =>
             /\ val.value_type = "Blob"
             /\ ~val.blob.data.null
             /\ val.blob.size = Len(v_arg)
             /\ val.blob.data.buf = v_arg
             /\ IntegerSentinel(val) /\ FloatSentinel(val) /\ TextSentinel(val)

C6_Witness ==
    /\ v_status = "ok"
    /\ v_op = "from_text"
    /\ val.value_type = "Text"
    /\ val.text.len = 2

\* C7: for every valid UTF-8 string s, one holding a zero byte included,
\* from_text(s) returns a Text Value whose length is the byte length of s and
\* whose payload displays as s; no content of s makes the constructor fail.
C7_FromTextAnyString ==
    v_op = "from_text" =>
        /\ v_status = "ok"
        /\ val.value_type = "Text"
        /\ val.text.len = Len(v_arg)
        /\ rendered.done => rendered.out = v_arg

Displayed == rendered.done /\ ~val.text.text.null
PayloadValid == FromUtf8(TextSlice(val.text)).ok
IsMarker(out) ==
    /\ IsPrefix(InvalidPrefix, out)
    /\ out[Len(out)] = 62

\* C8, as claimed: a valid payload displays as exactly its bytes; an invalid
\* one displays as a marker that no valid payload displays as.
C8_MarkerUnlikeAnyValid ==
    Displayed =>
        /\ PayloadValid => rendered.out = TextSlice(val.text)
        /\ ~PayloadValid =>
             /\ IsMarker(rendered.out)
             /\ \A b \in RawTexts :
                    FromUtf8(b).ok => DisplayText(HostTextValue(b).text) # rendered.out

\* C8, amended: a valid payload displays as exactly its bytes; an invalid one
\* displays as the marker "<invalid UTF-8: ...>" naming the decoding error,
\* never as its own bytes or a part of them, and no valid payload displays the
\* same unless its text itself begins with "<invalid UTF-8: ".
C8_MarkerUnlikeOtherValid ==
    Displayed =>
        /\ PayloadValid => rendered.out = TextSlice(val.text)
        /\ ~PayloadValid =>
             /\ IsMarker(rendered.out)
             /\ rendered.out # TextSlice(val.text)
             /\ ~IsPrefix(rendered.out, TextSlice(val.text))
             /\ \A b \in RawTexts :
                    (FromUtf8(b).ok /\ ~IsPrefix(InvalidPrefix, b)) =>
                        DisplayText(HostTextValue(b).text) # rendered.out

C8_Witness ==
    /\ Displayed
    /\ ~PayloadValid
    /\ val.text.len = 2
    /\ IsMarker(rendered.out)

===========================================================================
